---- MODULE Spec2Model ----
(***************************************************************************)
(* Context capture / restore stack of the Tahlia Blender add-on.           *)
(*                                                                         *)
(* Two classes implement the same manager: TahliaBridge                    *)
(* (src/src/python/tahlia_bridge.py) and TahliaCore                        *)
(* (src/src/python/tahlia_core.py).  The variable impl says which one the  *)
(* behaviour is about.  The Blender session (bpy) is the record host.      *)
(***************************************************************************)
EXTENDS Integers, Sequences, FiniteSets, TLC

\* ---------------------------------------------------------------- bounds
MaxMut == 2      \* host mutations (by the caller or by an operation) per behaviour
MaxDepth == 2    \* cap on the depth the model pushes to
MaxNest == 2     \* nesting depth of preserve_context calls
MaxPaths == 2    \* length of the asset lists given to the batch imports
MaxThreads == 2  \* threads calling push_context on one manager
MaxMaterials == 2  \* materials created per behaviour

\* -------------------------------------------------------------- constants
DefaultMaxStackSize == 10

Impls == {"bridge", "core"}
Objects == {"A", "B", "C"}
Collections == {"K1", "K2"}
Modes == {"OBJECT", "EDIT"}
Shadings == {"SOLID", "WIREFRAME"}
SizeChoices == {0, 1, 2}   \* values passed to set_max_context_stack_size
NoObj == ""

\* The condition of the session that makes one host API access raise
\* ("none": every access works).
\*   read_context    bpy.context.selected_objects (or another plain read of
\*                   capture_context) raises
\*   no_space_data   bpy.context.space_data is None
\*   collections     bpy.context.scene.collection.children raises
\*   set_active      assigning view_layer.objects.active raises
\*   deselect        bpy.ops.object.select_all raises
\*   select          obj.select_set(True) raises
\*   mode_set        bpy.ops.object.mode_set raises
\*   shading_write   assigning space_data.shading.type raises
\*   hide_write      assigning col.hide_viewport raises
Faults == {"none", "read_context", "no_space_data", "collections", "set_active",
           "deselect", "select", "mode_set", "shading_write", "hide_write"}

\* The dict returned by capture_context when its outer try fails: {}.
\* Every context.get(...) on it yields a falsy value / the given default.
EmptyCtx == [sel |-> {}, active |-> NoObj, mode |-> "", shading |-> "", vis |-> {}]

\* The restore made by a preserve_context activation at nesting depth level
\* (1 is the call the caller made), with the saved_context it was given.
Inner(level, ctx) == [level |-> level, ctx |-> ctx]
NoInner == Inner(0, EmptyCtx)

VARIABLES
    impl,          \* which class the manager is: "bridge" or "core"
    host,          \* the Blender session: objects, selection, active object, ...
    stack,         \* self.context_stack
    maxSize,       \* self.max_context_stack_size
    preservation,  \* self.context_preservation
    held,          \* <<dict>> the caller got from its last capture_context(), or <<>>
    frames,        \* activations of preserve_context, innermost last
    lastOp,        \* the step taken last (a public operation when it returns)
    ret,           \* what it returned: "true", "false", "none", or "raised"
    log,           \* the capture/restore calls that operation made
    nMut,          \* host mutations so far
    imp,           \* the last call of an import function: arguments and outcome
    largest,       \* the largest value max_context_stack_size has had so far
    pushing,       \* per thread: where its push_context call is, if it is in one
    mat,           \* bpy.data.materials and the last create_material_blender call
    inner          \* the last restore a nested preserve_context call has made

vars ==
    <<impl, host, stack, maxSize, preservation, held, frames, lastOp, ret, log,
      nMut, imp, largest, pushing, mat, inner>>

Bool(b) == IF b THEN "true" ELSE "false"

\* One entry of log: a call made, the dict it returned or was given, and
\* whether it reported success.
Entry(c, s, ok) == [call |-> c, ctx |-> s, ok |-> ok]

\* ------------------------------------------------------------ capture_context
FullCtx(h) ==
    [sel |-> h.selected, active |-> h.active, mode |-> h.mode,
     shading |-> h.shading, vis |-> h.visible]

\* TahliaBridge._capture_viewport_settings: no 'shading' key when space_data
\* has no shading attribute.
BridgeCaptureViewport(h) ==
    IF h.fault = "no_space_data" THEN "" ELSE h.shading

\* TahliaBridge._capture_visible_collections: [] when the read raises.
BridgeCaptureCollections(h) ==
    IF h.fault = "collections" THEN {} ELSE h.visible

\* TahliaBridge.capture_context: viewport and collections are read in helpers
\* with their own try; every other read is in the outer try, which returns {}.
BridgeCapture(h) ==
    IF h.fault = "read_context" THEN EmptyCtx
    ELSE [FullCtx(h) EXCEPT !.shading = BridgeCaptureViewport(h),
                            !.vis = BridgeCaptureCollections(h)]

\* TahliaCore.capture_context: every read is in the one outer try
\* (space_data.overlay raises when space_data is None).
CoreCapture(h) ==
    IF h.fault \in {"read_context", "no_space_data", "collections"}
    THEN EmptyCtx ELSE FullCtx(h)

capture_context(i, h) ==
    IF i = "bridge" THEN BridgeCapture(h) ELSE CoreCapture(h)

\* ------------------------------------------------------------ restore_context
\* Each step yields [host, raised]; raised means the exception reached the
\* outer try of restore_context, which returns False at once.
Step(h, r) == [host |-> h, raised |-> r]

\* (a slip: the active object is never set)
RestoreActiveSkipped(S, h) == Step(h, FALSE)

\* if context.get('active_object'): if it is in bpy.data.objects: set active
RestoreActive(S, h) ==
    IF S.active # NoObj /\ S.active \in h.objects
    THEN IF h.fault = "set_active" THEN Step(h, TRUE)
         ELSE Step([h EXCEPT !.active = S.active], FALSE)
    ELSE Step(h, FALSE)

\* (a slip: no membership test before select_set)
SelectableUnchecked(S, h) == S.sel

\* The identifiers of the snapshot that select_set is called on:
\* if obj_name in bpy.data.objects.
Selectable(S, h) == S.sel \cap h.objects

\* The guard of the selection step: if context.get('selected_objects').
RestoresSelection(S) == S.sel # {}

\* TahliaBridge: DESELECT all, then select_set(True) on each name that is in
\* bpy.data.objects.
BridgeRestoreSelection(S, h) ==
    IF ~RestoresSelection(S) THEN Step(h, FALSE)
    ELSE IF h.fault = "deselect" THEN Step(h, TRUE)
    ELSE IF h.fault = "select" /\ Selectable(S, h) # {}
         THEN Step([h EXCEPT !.selected = {}], TRUE)
    ELSE Step([h EXCEPT !.selected = Selectable(S, h)], FALSE)

\* TahliaCore: the same loop without the DESELECT.
CoreRestoreSelection(S, h) ==
    IF ~RestoresSelection(S) THEN Step(h, FALSE)
    ELSE IF h.fault = "select" /\ Selectable(S, h) # {} THEN Step(h, TRUE)
    ELSE Step([h EXCEPT !.selected = h.selected \cup Selectable(S, h)], FALSE)

\* if context.get('mode') and bpy.context.active_object: try mode_set except pass
RestoreMode(S, h) ==
    IF S.mode # "" /\ h.active # NoObj /\ h.fault # "mode_set"
    THEN [h EXCEPT !.mode = S.mode] ELSE h

\* TahliaBridge._restore_viewport_settings: own try, swallows.
BridgeRestoreViewport(S, h) ==
    IF h.fault \notin {"no_space_data", "shading_write"} /\ S.shading # ""
    THEN [h EXCEPT !.shading = S.shading] ELSE h

\* TahliaCore: the viewport write is in the outer try.
CoreRestoreViewport(S, h) ==
    IF h.fault # "no_space_data" /\ S.shading # ""
    THEN IF h.fault = "shading_write" THEN Step(h, TRUE)
         ELSE Step([h EXCEPT !.shading = S.shading], FALSE)
    ELSE Step(h, FALSE)

\* TahliaBridge._restore_visible_collections: for every collection of the
\* scene, hide_viewport = name not in collections; own try, swallows.
BridgeRestoreCollections(S, h) ==
    IF h.fault \in {"collections", "hide_write"} THEN h
    ELSE [h EXCEPT !.visible = S.vis \cap h.collections]

\* The result of restore_context: the host it leaves and the value returned.
Restored(h, ok) == [host |-> h, ok |-> ok]

BridgeRestore(S, h) ==
    LET a == RestoreActive(S, h) IN
    IF a.raised THEN Restored(a.host, FALSE) ELSE
    LET b == BridgeRestoreSelection(S, a.host) IN
    IF b.raised THEN Restored(b.host, FALSE) ELSE
    LET c == RestoreMode(S, b.host)
        d == BridgeRestoreViewport(S, c)
        e == BridgeRestoreCollections(S, d)
    IN Restored(e, TRUE)

CoreRestore(S, h) ==
    LET a == RestoreActive(S, h) IN
    IF a.raised THEN Restored(a.host, FALSE) ELSE
    LET b == CoreRestoreSelection(S, a.host) IN
    IF b.raised THEN Restored(b.host, FALSE) ELSE
    LET c == RestoreMode(S, b.host)
        d == CoreRestoreViewport(S, c)
    IN Restored(d.host, ~d.raised)

restore_context(i, S, h) ==
    IF i = "bridge" THEN BridgeRestore(S, h) ELSE CoreRestore(S, h)

\* ------------------------------------------------------------------ assets
\* An asset path, by what _perform_import can observe of it: its suffix,
\* whether os.path.exists holds, and whether its importer can read the file.
Asset(name, ext, exists, readable) ==
    [name |-> name, ext |-> ext, exists |-> exists, readable |-> readable]

Assets ==
    { Asset("good.obj", ".obj", TRUE, TRUE),      \* a valid model file
      Asset("gone.obj", ".obj", FALSE, FALSE),    \* no such file
      Asset("data.xyz", ".xyz", TRUE, FALSE),     \* an extension nobody knows
      Asset("mesh.stl", ".stl", TRUE, TRUE),      \* listed in supported_formats
      Asset("bad.png", ".png", TRUE, FALSE) }     \* a texture that cannot be read

\* Asset lists of length 0 .. n.
RECURSIVE PathLists(_)
PathLists(n) ==
    IF n = 0 THEN {<<>>}
    ELSE LET shorter == PathLists(n - 1) IN
         shorter \cup {Append(p, a) : p \in {q \in shorter : Len(q) = n - 1},
                                      a \in Assets}

\* asset_paths of the batch imports.
AssetLists == PathLists(MaxPaths)

\* rows and cols of import_assets_grid.
GridDims == {0, 1, 2}

\* The 'models' and 'textures' lists of get_supported_formats (tahlia_core)
\* and get_supported_formats_blender (tahlia_bridge), which are the same.
ListedModels == {".blend", ".obj", ".fbx", ".dae", ".3ds", ".stl", ".ply"}
ListedTextures == {".png", ".jpg", ".jpeg", ".tga", ".tiff", ".bmp", ".exr", ".hdr"}
Listed == ListedModels \cup ListedTextures

\* The extensions _perform_import hands to an importer.
DispatchedModels == {".blend", ".obj", ".fbx", ".dae"}
DispatchedTextures == {".png", ".jpg", ".jpeg", ".tga", ".tiff", ".bmp", ".exr", ".hdr"}
Dispatched == DispatchedModels \cup DispatchedTextures

\* One import result dict, with the asset it was produced for.
Result(a, success, message, list_data) ==
    [asset |-> a, success |-> success, message |-> message,
     list_data |-> list_data]

\* What an import function returned: a bool, a list of result dicts, or
\* nothing because an exception left it ("raised").
Out(kind, value, results) == [kind |-> kind, value |-> value, results |-> results]

\* produced: the dicts _perform_import returned during the call, in order.
Import(fn, paths, rows, cols, produced, out) ==
    [fn |-> fn, paths |-> paths, rows |-> rows, cols |-> cols,
     produced |-> produced, out |-> out]

NoImport == Import("none", <<>>, 0, 0, <<>>, Out("none", FALSE, <<>>))

\* ----------------------------------------------------------------- threads
\* The threads that may call push_context on the same manager.
Threads == 1..MaxThreads

\* Where a thread is in push_context: outside it ("idle"), or past the
\* depth test and before the append ("checked", with the depth the test read).
InPush(pc, seen) == [pc |-> pc, seen |-> seen]

NotPushing == InPush("idle", 0)

\* --------------------------------------------------------------- materials
\* A material: its name and the Metallic and Roughness inputs of its
\* Principled BSDF node, in tenths.
Material(name, metallic, roughness) ==
    [name |-> name, metallic |-> metallic, roughness |-> roughness]

\* The result dict of _create_success_result / _create_error_result.
MaterialResult(success, message) == [success |-> success, message |-> message]

\* materials: bpy.data.materials, oldest first; options and result: the
\* arguments and the return value of the last create_material_blender call.
Materials(materials, name, options, result) ==
    [materials |-> materials, name |-> name, options |-> options,
     result |-> result]

\* An option that is not in the options dict.
Absent == "absent"

\* The options dict of create_material_blender, for the two options the
\* scenarios use.
Options(metallic, roughness) == [metallic |-> metallic, roughness |-> roughness]

NoMaterials ==
    Materials(<<>>, "", Options(Absent, Absent), MaterialResult(FALSE, ""))

\* float(s) for the strings given as option values, in tenths; the strings
\* outside its domain make float raise ValueError.
FloatOf == [s \in {"0.2", "0.8"} |-> IF s = "0.2" THEN 2 ELSE 8]

OptionValues == {Absent, "0.2", "0.8", "invalid_value"}
OptionSets == {Options(m, r) : m \in OptionValues, r \in {Absent, "0.8", "rough"}}
MaterialNames == {"TestErrorMaterial", "Gold"}

\* The Metallic and Roughness inputs of a new Principled BSDF node, in tenths.
DefaultMetallic == 0
DefaultRoughness == 5

\* ------------------------------------------------------------------- Init
\* The session the scenarios start from: A and B exist and are selected, A
\* is active, every collection is visible.
InitHost ==
    [objects |-> {"A", "B"}, selected |-> {"A", "B"}, active |-> "A",
     mode |-> "OBJECT", shading |-> "SOLID",
     collections |-> Collections, visible |-> Collections, fault |-> "none"]

Init ==
    /\ impl \in Impls
    /\ host = InitHost
    /\ stack = <<>>
    /\ maxSize = DefaultMaxStackSize
    /\ preservation = TRUE
    /\ held = <<>>
    /\ frames = <<>>
    /\ lastOp = "init"
    /\ ret = "none"
    /\ log = <<>>
    /\ nMut = 0
    /\ imp = NoImport
    /\ largest = DefaultMaxStackSize
    /\ pushing = [t \in Threads |-> NotPushing]
    /\ mat = NoMaterials
    /\ inner = NoInner

\* ------------------------------------------------- who may act on the host
Idle == frames = <<>>
Top == frames[Len(frames)]
Executing == frames # <<>> /\ Top.phase = "Executing"

\* ---------------------------------------------------------- host mutations
\* What the caller's script, or the operation given to preserve_context,
\* does to the Blender session.
Mutate(h) ==
    /\ Idle \/ Executing
    /\ nMut < MaxMut
    /\ h # host
    /\ host' = h
    /\ nMut' = nMut + 1
    /\ lastOp' = "host"
    /\ ret' = "none"
    /\ log' = <<>>
    /\ UNCHANGED <<inner, mat, pushing, largest, imp, impl, stack, maxSize, preservation, held, frames>>

SelectObject == \E o \in host.objects :
    Mutate([host EXCEPT !.selected = @ \cup {o}])

DeselectAll == Mutate([host EXCEPT !.selected = {}])

SetActive == \E o \in host.objects : Mutate([host EXCEPT !.active = o])

\* bpy.ops.mesh.primitive_*_add: the new object is the only selected one and
\* the active one.
CreateObject == \E o \in Objects \ host.objects :
    Mutate([host EXCEPT !.objects = @ \cup {o}, !.selected = {o}, !.active = o])

DeleteObject == \E o \in host.objects :
    Mutate([host EXCEPT !.objects = @ \ {o}, !.selected = @ \ {o},
                        !.active = IF @ = o THEN NoObj ELSE @])

SetCollectionVisibility == \E c \in host.collections :
    Mutate([host EXCEPT !.visible = IF c \in @ THEN @ \ {c} ELSE @ \cup {c}])

DeleteCollection == \E c \in host.collections :
    Mutate([host EXCEPT !.collections = @ \ {c}, !.visible = @ \ {c}])

SetMode == \E m \in Modes : host.active # NoObj /\ Mutate([host EXCEPT !.mode = m])

SetShading == \E s \in Shadings : Mutate([host EXCEPT !.shading = s])

\* The session enters or leaves a condition in which one API access raises.
SetFault == \E f \in Faults : Mutate([host EXCEPT !.fault = f])

HostStep ==
    \/ SelectObject
    \/ DeselectAll
    \/ SetActive
    \/ CreateObject
    \/ DeleteObject
    \/ SetCollectionVisibility
    \/ DeleteCollection
    \/ SetMode
    \/ SetShading
    \/ SetFault

\* ------------------------------------------------------- public operations
\* capture_context() called by the caller, who keeps the dict.
CaptureContext ==
    LET S == capture_context(impl, host) IN
    /\ Idle
    /\ held' = <<S>>
    /\ lastOp' = "capture"
    /\ ret' = "none"
    /\ log' = <<Entry("capture", S, TRUE)>>
    /\ UNCHANGED <<inner, mat, pushing, largest, imp, impl, host, stack, maxSize, preservation, frames, nMut>>

\* restore_context(context) called by the caller with the dict it holds.
RestoreContext ==
    /\ Idle
    /\ held # <<>>
    /\ LET r == restore_context(impl, held[1], host) IN
        /\ host' = r.host
        /\ ret' = Bool(r.ok)
        /\ log' = <<Entry("restore", held[1], r.ok)>>
    /\ lastOp' = "restore"
    /\ UNCHANGED <<inner, mat, pushing, largest, imp, impl, stack, maxSize, preservation, held, frames, nMut>>

\* (a slip: the test looks at the limit only)
HasRoomIfLimit(depth, max) == max > 0

\* (a slip: the depth test always passes)
HasRoomAlways(depth, max) == TRUE

\* (a slip: <= where the code has <)
HasRoomInclusive(depth, max) == depth <= max

\* if len(self.context_stack) < self.max_context_stack_size
HasRoom(depth, max) == depth < max

\* (a slip: one dict object is reused for every capture, so the entries
\* already stored show the new capture too)
PushedShared(s, S) == [k \in 1..(Len(s) + 1) |-> S]

\* context = self.capture_context(); self.context_stack.append(context):
\* a dict built anew by each capture is added at the end.
Pushed(s, S) == Append(s, S)

\* push_context, in behaviours that push to depth cap at most.
Push(cap) ==
    LET S == capture_context(impl, host) IN
    /\ Idle
    /\ HasRoom(Len(stack), maxSize) => Len(stack) < cap
    /\ IF HasRoom(Len(stack), maxSize)
       THEN /\ stack' = Pushed(stack, S)
            /\ ret' = "true"
            /\ log' = <<Entry("capture", S, TRUE)>>
       ELSE /\ stack' = stack
            /\ ret' = "false"
            /\ log' = <<>>
    /\ lastOp' = "push"
    /\ UNCHANGED <<inner, mat, pushing, largest, imp, impl, host, maxSize, preservation, held, frames, nMut>>

PushContext == Push(MaxDepth)

\* A limit above the default one, and a cap that no limit in use reaches.
LargeMaxStackSize == DefaultMaxStackSize + 1
DeepCap == LargeMaxStackSize + 1

\* push_context in behaviours that fill the stack to its limit.
PushContextDeep == Push(DeepCap)

\* No thread is between the depth test and the append of push_context.
NoPushInFlight == \A t \in Threads : pushing[t].pc = "idle"

\* push_context in thread t, up to the depth test: the thread goes on to the
\* capture and the append, or returns False.
PushCheck(t) ==
    /\ Idle
    /\ pushing[t].pc = "idle"
    /\ HasRoom(Len(stack), maxSize) => Len(stack) < MaxDepth
    /\ IF HasRoom(Len(stack), maxSize)
       THEN /\ pushing' = [pushing EXCEPT ![t] = InPush("checked", Len(stack))]
            /\ lastOp' = "push_check"
            /\ ret' = "none"
       ELSE /\ pushing' = pushing
            /\ lastOp' = "push"
            /\ ret' = "false"
    /\ log' = <<>>
    /\ UNCHANGED <<inner, mat, largest, imp, impl, host, stack, maxSize, preservation, held,
                   frames, nMut>>

\* push_context in thread t, after the test: capture, append, return True.
PushAppend(t) ==
    LET S == capture_context(impl, host) IN
    /\ pushing[t].pc = "checked"
    /\ stack' = Pushed(stack, S)
    /\ pushing' = [pushing EXCEPT ![t] = NotPushing]
    /\ lastOp' = "push"
    /\ ret' = "true"
    /\ log' = <<Entry("capture", S, TRUE)>>
    /\ UNCHANGED <<inner, mat, largest, imp, impl, host, maxSize, preservation, held, frames,
                   nMut>>

\* (a slip: an empty stack reported as a successful pop)
PopEmptyResultTrue == "true"

\* pop_context on an empty stack: return False.
PopEmptyResult == "false"

\* (a slip: pop(0), the oldest snapshot)
PopIndexFirst(s) == 1

\* list.pop(): the index of the element removed.
PopIndex(s) == Len(s)

Remove(s, i) == [j \in 1..(Len(s) - 1) |-> IF j < i THEN s[j] ELSE s[j + 1]]

\* (a slip: a snapshot whose restore failed is put back)
PoppedUnlessFailed(s, i, ok) == IF ok THEN Remove(s, i) ELSE s

\* context = self.context_stack.pop(): the snapshot is off the stack before
\* restore_context is called, whatever that call returns.
Popped(s, i, ok) == Remove(s, i)

PopContext ==
    /\ Idle
    /\ IF stack # <<>>
       THEN LET S == stack[PopIndex(stack)]
                r == restore_context(impl, S, host)
            IN /\ stack' = Popped(stack, PopIndex(stack), r.ok)
               /\ host' = r.host
               /\ ret' = Bool(r.ok)
               /\ log' = <<Entry("restore", S, r.ok)>>
       ELSE /\ stack' = stack
            /\ host' = host
            /\ ret' = PopEmptyResult
            /\ log' = <<>>
    /\ lastOp' = "pop"
    /\ UNCHANGED <<inner, mat, pushing, largest, imp, impl, maxSize, preservation, held, frames, nMut>>

\* (a slip: only the newest snapshot is dropped)
ClearedTopOnly(s) == SubSeq(s, 1, Len(s) - 1)

\* self.context_stack.clear()
Cleared(s) == <<>>

ClearContextStack ==
    /\ Idle
    /\ stack' = Cleared(stack)
    /\ lastOp' = "clear"
    /\ ret' = "none"
    /\ log' = <<>>
    /\ UNCHANGED <<inner, mat, pushing, largest, imp, impl, host, maxSize, preservation, held, frames, nMut>>

\* (a slip: the stack is trimmed to the new limit)
Trimmed(s, n) == IF Len(s) > n THEN SubSeq(s, 1, n) ELSE s

\* set_max_context_stack_size assigns the limit and leaves context_stack alone.
Resized(s, n) == s

\* set_max_context_stack_size(n).
Resize(n) ==
    /\ Idle
    /\ maxSize' = n
    /\ largest' = IF n > largest THEN n ELSE largest
    /\ stack' = Resized(stack, n)
    /\ lastOp' = "set_max"
    /\ ret' = "none"
    /\ log' = <<>>
    /\ UNCHANGED <<inner, mat, pushing, imp, impl, host, preservation, held, frames, nMut>>

SetMaxContextStackSize == \E n \in SizeChoices : Resize(n)

\* The limits set in behaviours that fill the stack: one below and one above
\* the default.
DeepSizeChoices == {1, LargeMaxStackSize}

SetMaxDeep == \E n \in DeepSizeChoices : Resize(n)

SetContextPreservation == \E b \in BOOLEAN :
    /\ Idle
    /\ preservation' = b
    /\ lastOp' = "set_preservation"
    /\ ret' = "none"
    /\ log' = <<>>
    /\ UNCHANGED <<inner, mat, pushing, largest, imp, impl, host, stack, maxSize, held, frames, nMut>>

\* ---------------------------------------------------------- preserve_context
\* One activation of preserve_context: where it is (Capturing, Executing,
\* Restoring), whether it took the preserving path, its local saved_context,
\* whether the operation raised, what the operation left behind, and the
\* calls it has made so far.
Frame(phase, enabled, saved, raised, calls) ==
    [phase |-> phase, enabled |-> enabled, saved |-> saved, raised |-> raised,
     after |-> EmptyCtx, calls |-> calls]

\* (a slip: the toggle is ignored)
PreservesAlways(flag) == TRUE

\* if not self.context_preservation: the plain path, without capture/restore.
Preserves(flag) == flag

Pop(s) == SubSeq(s, 1, Len(s) - 1)
SetTop(s, f) == [s EXCEPT ![Len(s)] = f]

\* (a slip: the operation is started without the capture)
EntryPhaseExecuting(preserving) == "Executing"

\* Where preserve_context goes first: to saved_context = capture_context()
\* on the preserving path, straight to operation() on the plain path.
EntryPhase(preserving) == IF preserving THEN "Capturing" ELSE "Executing"

\* preserve_context(operation) is called, by the caller or by an operation
\* that is running inside another preserve_context.
PreserveCall ==
    /\ Idle \/ Executing
    /\ Len(frames) < MaxNest
    /\ frames' = Append(frames,
          Frame(EntryPhase(Preserves(preservation)),
                Preserves(preservation), EmptyCtx, FALSE,
                <<Entry("call", FullCtx(host), TRUE)>>))
    /\ inner' = IF Idle THEN NoInner ELSE inner
    /\ lastOp' = "preserve_call"
    /\ ret' = "none"
    /\ log' = <<>>
    /\ UNCHANGED <<mat, pushing, largest, imp, impl, host, stack, maxSize, preservation, held, nMut>>

\* (a slip: the snapshot is kept on the context stack)
KeptOnStack(s, S) == Append(s, S)

\* saved_context is a local variable of preserve_context: context_stack is
\* not written.
Kept(s, S) == s

\* saved_context = self.capture_context()
PreserveCapture ==
    LET S == capture_context(impl, host) IN
    /\ frames # <<>>
    /\ Top.phase = "Capturing"
    /\ frames' = SetTop(frames, [Top EXCEPT !.phase = "Executing", !.saved = S,
                                   !.calls = Append(@, Entry("capture", S, TRUE))])
    /\ stack' = Kept(stack, S)
    /\ lastOp' = "preserve_capture"
    /\ ret' = "none"
    /\ log' = <<>>
    /\ UNCHANGED <<inner, mat, pushing, largest, imp, impl, host, maxSize, preservation, held, nMut>>

\* The value of the plain path when the operation raises: TahliaBridge
\* catches the exception and returns False; TahliaCore has no try there and
\* the exception leaves preserve_context.
PlainRaiseResult(i) == IF i = "bridge" THEN "false" ELSE "raised"

\* operation() returns.
OperationReturns ==
    /\ Executing
    /\ IF Top.enabled
       THEN /\ frames' = SetTop(frames, [Top EXCEPT !.phase = "Restoring",
                                                    !.after = FullCtx(host)])
            /\ lastOp' = "operation_returns"
            /\ ret' = "none"
            /\ log' = <<>>
       ELSE /\ frames' = Pop(frames)
            /\ lastOp' = "preserve"
            /\ ret' = "true"
            /\ log' = Append(Top.calls, Entry("operation", FullCtx(host), TRUE))
    /\ UNCHANGED <<inner, mat, pushing, largest, imp, impl, host, stack, maxSize, preservation, held, nMut>>

\* operation() raises an Exception.
OperationRaises ==
    /\ Executing
    /\ IF Top.enabled
       THEN /\ frames' = SetTop(frames, [Top EXCEPT !.phase = "Restoring",
                                                    !.raised = TRUE,
                                                    !.after = FullCtx(host)])
            /\ lastOp' = "operation_raises"
            /\ ret' = "none"
            /\ log' = <<>>
       ELSE /\ frames' = Pop(frames)
            /\ lastOp' = "preserve"
            /\ ret' = PlainRaiseResult(impl)
            /\ log' = Append(Top.calls, Entry("operation", FullCtx(host), FALSE))
    /\ UNCHANGED <<inner, mat, pushing, largest, imp, impl, host, stack, maxSize, preservation, held, nMut>>

\* (a slip: the except branch returns the restore's result as well)
PreserveResultOfRestore(raised, restoreOk) == restoreOk

\* try: operation(); return self.restore_context(saved_context)
\* except: self.restore_context(saved_context); return False
PreserveResult(raised, restoreOk) == ~raised /\ restoreOk

\* (a slip: a restore that returned False is called again)
RestoreCallsRetried(S, ok) ==
    IF ok THEN <<Entry("restore", S, ok)>>
    ELSE <<Entry("restore", S, ok), Entry("restore", S, ok)>>

\* The restore_context calls of the preserving path: one, in the try branch
\* or in the except branch.
RestoreCalls(S, ok) == <<Entry("restore", S, ok)>>

\* (a slip: saved_context is one slot that nested calls share, so the call
\* that returns last restores the snapshot a nested call took)
SavedContextShared(fs, nested) ==
    IF nested # NoInner THEN nested.ctx ELSE fs[Len(fs)].saved

\* saved_context is a local variable: each activation restores the dict it
\* captured itself, whatever the calls nested in it have captured.
SavedContext(fs, nested) == fs[Len(fs)].saved

\* The restore that ends the preserving path, and the return.
PreserveRestore ==
    /\ frames # <<>>
    /\ Top.phase = "Restoring"
    /\ LET S == SavedContext(frames, inner)
           r == restore_context(impl, S, host)
       IN
        /\ host' = r.host
        /\ ret' = Bool(PreserveResult(Top.raised, r.ok))
        /\ log' = Top.calls \o <<Entry("operation", Top.after, ~Top.raised)>>
                             \o RestoreCalls(S, r.ok)
        /\ inner' = IF Len(frames) > 1 THEN Inner(Len(frames), S) ELSE inner
    /\ frames' = Pop(frames)
    /\ lastOp' = "preserve"
    /\ UNCHANGED <<mat, pushing, largest, imp, impl, stack, maxSize, preservation, held, nMut>>

\* ------------------------------------------------------------------ imports
\* What a model importer leaves in the session: the imported object exists
\* and is the selection (the importers read bpy.context.selected_objects for
\* the names they report).
ImportEffect(h) ==
    [h EXCEPT !.objects = @ \cup {"C"}, !.selected = {"C"}, !.active = "C"]

\* _import_obj_file, _import_texture, ...: each has a try of its own and
\* returns a failure dict when the import raises.
Importer(a, h) ==
    IF ~a.readable
    THEN [host |-> h, result |-> Result(a, FALSE, "Failed to import", <<>>)]
    ELSE IF a.ext \in DispatchedModels
    THEN [host |-> ImportEffect(h), result |-> Result(a, TRUE, "Imported", <<"C">>)]
    ELSE [host |-> h, result |-> Result(a, TRUE, "Imported", <<>>)]

\* _perform_import: the existence test, then the dispatch on the suffix.
perform_import(a, h) ==
    IF ~a.exists
    THEN [host |-> h, result |-> Result(a, FALSE, "Asset file not found", <<>>)]
    ELSE IF a.ext \in Dispatched
    THEN Importer(a, h)
    ELSE [host |-> h, result |-> Result(a, FALSE, "Unsupported file format", <<>>)]

\* The outcome of an operation given to preserve_context: the host it
\* leaves, the result dicts produced, and whether it raised.
Ran(h, produced, raised) == [host |-> h, produced |-> produced, raised |-> raised]

\* import_operation of import_asset.
SingleOperation(a, h) ==
    LET r == perform_import(a, h) IN Ran(r.host, <<r.result>>, FALSE)

\* (a slip: one asset too many is let through)
GridFullExclusive(i, rows, cols) == i > rows * cols

\* if i >= rows * cols: break
GridFull(i, rows, cols) == i >= rows * cols

\* (a slip: a failed import ends the loop)
LeavesLoopOnFailure(result) == ~result.success

\* Whether the dict _perform_import returned makes the loop stop before
\* results.append(result): a failure is a returned dict, not an exception,
\* and 'if result["success"]' only guards the positioning.
LeavesLoop(result) == FALSE

\* grid_operation, from index i (0-based, as enumerate counts).
RECURSIVE GridOperation(_, _, _, _, _, _)
GridOperation(paths, i, rows, cols, h, results) ==
    IF i >= Len(paths) \/ GridFull(i, rows, cols)
    THEN Ran(h, results, FALSE)
    ELSE LET r == perform_import(paths[i + 1], h) IN
         IF LeavesLoop(r.result) THEN Ran(r.host, results, FALSE)
         ELSE GridOperation(paths, i + 1, rows, cols, r.host,
                            Append(results, r.result))

\* line_operation, from index i.
RECURSIVE LineOperation(_, _, _, _)
LineOperation(paths, i, h, results) ==
    IF i >= Len(paths)
    THEN Ran(h, results, FALSE)
    ELSE LET r == perform_import(paths[i + 1], h) IN
         IF LeavesLoop(r.result) THEN Ran(r.host, results, FALSE)
         ELSE LineOperation(paths, i + 1, r.host, Append(results, r.result))

\* The names the module tahlia_core binds by its import statements do not
\* include math.
MathImported == FALSE

\* circle_operation, from index i: the position is computed with math.cos
\* and math.sin before the import, which raises NameError when math is not
\* bound.
RECURSIVE CircleOperation(_, _, _, _)
CircleOperation(paths, i, h, results) ==
    IF i >= Len(paths)
    THEN Ran(h, results, FALSE)
    ELSE IF ~MathImported
    THEN Ran(h, results, TRUE)
    ELSE LET r == perform_import(paths[i + 1], h) IN
         CircleOperation(paths, i + 1, r.host, Append(results, r.result))

\* TahliaCore.preserve_context(operation) as one step, for an operation
\* whose outcome is run: the host it leaves, its value ("true", "false" or
\* "raised") and the calls it made.
PreserveAround(run) ==
    IF ~Preserves(preservation)
    THEN [host |-> run.host,
          value |-> IF run.raised THEN PlainRaiseResult(impl) ELSE "true",
          calls |-> <<Entry("call", FullCtx(host), TRUE),
                      Entry("operation", FullCtx(run.host), ~run.raised)>>]
    ELSE LET S == capture_context(impl, host)
             r == restore_context(impl, S, run.host)
         IN [host |-> r.host,
             value |-> Bool(PreserveResult(run.raised, r.ok)),
             calls |-> <<Entry("call", FullCtx(host), TRUE),
                         Entry("capture", S, TRUE),
                         Entry("operation", FullCtx(run.host), ~run.raised),
                         Entry("restore", S, r.ok)>>]

\* A behaviour follows one import call, made outside preserve_context: its
\* outcome depends only on the arguments, the toggle and the session it
\* starts from.
CanImport == Idle /\ imp = NoImport

\* The import functions of tahlia_core belong to TahliaCore.
CanImportCore == impl = "core" /\ CanImport

\* An import function returns: what it did to the host, what it returned.
ImportReturns(fn, paths, rows, cols, run, p, out) ==
    /\ host' = p.host
    /\ imp' = Import(fn, paths, rows, cols, run.produced, out)
    /\ lastOp' = fn
    /\ ret' = IF out.kind = "bool" THEN Bool(out.value) ELSE out.kind
    /\ log' = p.calls
    /\ UNCHANGED <<inner, mat, pushing, largest, impl, stack, maxSize, preservation, held,
                   frames, nMut>>

\* The value of a batch import: self.preserve_context(...); return results.
\* An exception that preserve_context lets through leaves the function.
BatchOut(run, p) ==
    IF p.value = "raised" THEN Out("raised", FALSE, <<>>)
    ELSE Out("list", FALSE, run.produced)

\* import_asset: return self.preserve_context(import_operation).
ImportAsset == CanImportCore /\ \E a \in Assets :
    LET run == SingleOperation(a, host)
        p == PreserveAround(run)
    IN ImportReturns("import_asset", <<a>>, 0, 0, run, p,
                     Out("bool", p.value = "true", <<>>))

ImportAssetsGrid == CanImportCore /\
    \E paths \in AssetLists, rows \in GridDims, cols \in GridDims :
        LET run == GridOperation(paths, 0, rows, cols, host, <<>>)
            p == PreserveAround(run)
        IN ImportReturns("import_assets_grid", paths, rows, cols, run, p,
                         BatchOut(run, p))

ImportAssetsCircle == CanImportCore /\ \E paths \in AssetLists :
    LET run == CircleOperation(paths, 0, host, <<>>)
        p == PreserveAround(run)
    IN ImportReturns("import_assets_circle", paths, 0, 0, run, p,
                     BatchOut(run, p))

ImportAssetsLine == CanImportCore /\ \E paths \in AssetLists :
    LET run == LineOperation(paths, 0, host, <<>>)
        p == PreserveAround(run)
    IN ImportReturns("import_assets_line", paths, 0, 0, run, p,
                     BatchOut(run, p))

\* TahliaBridge.import_asset_blender: the existence test and the dispatch on
\* the suffix, the same branches as _perform_import, to the _blender
\* importers.
import_asset_blender(a, h) ==
    IF ~a.exists
    THEN [host |-> h, result |-> Result(a, FALSE, "Asset file not found", <<>>)]
    ELSE IF a.ext \in {".blend", ".obj", ".fbx", ".dae"} \cup DispatchedTextures
    THEN Importer(a, h)
    ELSE [host |-> h, result |-> Result(a, FALSE, "Unsupported file format", <<>>)]

\* import_asset_blender called on the bridge: it returns the result dict and
\* makes no capture or restore.
ImportAssetBlender == impl = "bridge" /\ CanImport /\ \E a \in Assets :
    LET r == import_asset_blender(a, host) IN
    /\ host' = r.host
    /\ imp' = Import("import_asset_blender", <<a>>, 0, 0, <<r.result>>,
                     Out("record", r.result.success, <<r.result>>))
    /\ lastOp' = "import_asset_blender"
    /\ ret' = Bool(r.result.success)
    /\ log' = <<>>
    /\ UNCHANGED <<inner, mat, pushing, largest, impl, stack, maxSize, preservation, held,
                   frames, nMut>>

\* --------------------------------------------------------------- materials
\* What create_material_blender has done and whether it raised.
Made(m, raised) == [material |-> m, raised |-> raised]

\* if 'metallic' in options: ... = float(options['metallic'])
ApplyMetallic(made, options) ==
    IF made.raised \/ options.metallic = Absent THEN made
    ELSE IF options.metallic \in DOMAIN FloatOf
    THEN Made([made.material EXCEPT !.metallic = FloatOf[options.metallic]], FALSE)
    ELSE Made(made.material, TRUE)

\* if 'roughness' in options: ... = float(options['roughness'])
ApplyRoughness(made, options) ==
    IF made.raised \/ options.roughness = Absent THEN made
    ELSE IF options.roughness \in DOMAIN FloatOf
    THEN Made([made.material EXCEPT !.roughness = FloatOf[options.roughness]], FALSE)
    ELSE Made(made.material, TRUE)

\* The body of the try of create_material_blender: the material is created by
\* bpy.data.materials.new, then the options are applied to its Principled
\* BSDF node if it has one.
MakeMaterial(name, options, principled) ==
    LET new == Made(Material(name, DefaultMetallic, DefaultRoughness), FALSE) IN
    IF principled
    THEN ApplyRoughness(ApplyMetallic(new, options), options)
    ELSE new

\* create_material_blender(name, options): the success result, or the error
\* result of the except branch; the material made before the exception
\* stays in bpy.data.materials.
CreateMaterial ==
    /\ Idle
    /\ Len(mat.materials) < MaxMaterials
    /\ \E name \in MaterialNames, options \in OptionSets, principled \in BOOLEAN :
          LET made == MakeMaterial(name, options, principled)
              result == IF made.raised
                        THEN MaterialResult(FALSE, "Failed to create material")
                        ELSE MaterialResult(TRUE, "Created material")
          IN /\ mat' = Materials(Append(mat.materials, made.material), name,
                                 options, result)
             /\ ret' = Bool(result.success)
    /\ lastOp' = "create_material"
    /\ log' = <<>>
    /\ UNCHANGED <<inner, pushing, largest, imp, impl, host, stack, maxSize, preservation,
                   held, frames, nMut>>

\* --------------------------------------------------------- specifications
\* The context stack: push, pop, clear and the size limit, between host
\* mutations.
Next ==
    \/ HostStep
    \/ PushContext
    \/ PopContext
    \/ ClearContextStack
    \/ SetMaxContextStackSize

Spec == Init /\ [][Next]_vars

\* capture_context and restore_context called directly by the caller.
NextCapture ==
    \/ HostStep
    \/ CaptureContext
    \/ RestoreContext

SpecCapture == Init /\ [][NextCapture]_vars

\* preserve_context around operations that mutate the host, nested up to
\* MaxNest, with the preservation toggle.
NextRun ==
    \/ HostStep
    \/ SetContextPreservation
    \/ PreserveCall
    \/ PreserveCapture
    \/ OperationReturns
    \/ OperationRaises
    \/ PreserveRestore

SpecRun == Init /\ [][NextRun]_vars

\* preserve_context runs its own statements to the end: once called it
\* captures, and once the operation has ended it restores and returns.
\* Whether the operation ends is left open.
SpecRunFair ==
    SpecRun /\ WF_vars(PreserveCapture) /\ WF_vars(PreserveRestore)

\* All the serialized calls on one manager, the stack filled to its limit:
\* push, pop, clear, resize and preserve_context, one at a time.
NextDepth ==
    \/ DeselectAll
    \/ PushContextDeep
    \/ PopContext
    \/ ClearContextStack
    \/ SetMaxDeep
    \/ SetContextPreservation
    \/ PreserveCall
    \/ PreserveCapture
    \/ OperationReturns
    \/ OperationRaises
    \/ PreserveRestore

SpecDepth == Init /\ [][NextDepth]_vars

\* push_context called from several threads without a lock, its depth test
\* and its append interleaved with the other thread's and with pops; the
\* limit is set while no push is in flight.
NextInterleaved ==
    \/ DeselectAll
    \/ SetFault
    \/ NoPushInFlight /\ SetMaxContextStackSize
    \/ \E t \in Threads : PushCheck(t)
    \/ \E t \in Threads : PushAppend(t)
    \/ PopContext

SpecInterleaved == Init /\ [][NextInterleaved]_vars

\* create_material_blender of tahlia_bridge, called up to MaxMaterials times.
InitMaterial == Init /\ impl = "bridge"

NextMaterial == CreateMaterial

SpecMaterial == InitMaterial /\ [][NextMaterial]_vars

\* The import functions of tahlia_core and import_asset_blender of
\* tahlia_bridge, called in a session the caller has changed and whose API
\* calls may fail, with the preservation toggle.
InitImport == Init

\* What the caller does to the session and the toggle before the call.
BeforeImport ==
    /\ imp = NoImport
    /\ \/ DeselectAll
       \/ CreateObject
       \/ SetFault
       \/ SetContextPreservation

NextImport ==
    \/ BeforeImport
    \/ ImportAsset
    \/ ImportAssetsGrid
    \/ ImportAssetsCircle
    \/ ImportAssetsLine
    \/ ImportAssetBlender

SpecImport == InitImport /\ [][NextImport]_vars

\* ===================================================================
\* Properties
\* ===================================================================

\* C1: every push_context made while the depth is below
\* max_context_stack_size returns True and makes the stack exactly one
\* deeper, keeping what was stored; every push made at or above the limit
\* returns False and leaves the stack as it was.
C1_PushWithinLimit ==
    [][lastOp' = "push" =>
        IF Len(stack) < maxSize
        THEN /\ ret' = "true"
             /\ Len(stack') = Len(stack) + 1
             /\ SubSeq(stack', 1, Len(stack)) = stack
        ELSE /\ ret' = "false"
             /\ stack' = stack]_vars

\* The third push of the scenario: limit 2, depth 2, the push returned False.
C1_Witness ==
    lastOp = "push" /\ ret = "false" /\ maxSize = 2 /\ Len(stack) = 2

\* C2: pop_context on an empty stack returns False, leaves the stack empty
\* and calls no restore: the host is untouched.
C2_PopEmpty ==
    [][(lastOp' = "pop" /\ stack = <<>>) =>
        /\ ret' = "false"
        /\ stack' = <<>>
        /\ host' = host
        /\ log' = <<>>]_vars

\* A pop that found the stack empty has just returned (no restore logged).
C2_Witness ==
    lastOp = "pop" /\ log = <<>> /\ stack = <<>> /\ ret = "false"

\* C3: pop_context on a non-empty stack removes exactly the snapshot pushed
\* last, calls restore_context on it (the host is what that call leaves) and
\* returns that call's result.
C3_PopLifo ==
    [][(lastOp' = "pop" /\ stack # <<>>) =>
        LET S == stack[Len(stack)] IN
        /\ stack' = SubSeq(stack, 1, Len(stack) - 1)
        /\ log' = <<Entry("restore", S, ret' = "true")>>
        /\ host' = restore_context(impl, S, host).host
        /\ ret' = Bool(restore_context(impl, S, host).ok)]_vars

\* A pop from depth 2 has restored the newer of two different snapshots and
\* left the older one on the stack.
C3_Witness ==
    /\ lastOp = "pop" /\ ret = "true"
    /\ Len(log) = 1 /\ log[1].call = "restore"
    /\ Len(stack) = 1 /\ stack[1] # log[1].ctx


\* The log of a preserve_context call that has returned:
\*   preserving path  <<call, capture, operation, restore>>
\*   plain path       <<call, operation>>
\* call holds the host as it was when the call was made, operation the host
\* as the operation left it and whether it completed.
PreservedRun == lastOp = "preserve" /\ Len(log) = 4
PlainRun == lastOp = "preserve" /\ Len(log) = 2

\* C4: after restore_context(S) returns True, the selection is exactly the
\* identifiers of S.selectedObjects that still exist, for every S, an S with
\* an empty selection included.
C4_SelectionIsSnapshot ==
    (lastOp = "restore" /\ ret = "true") =>
        host.selected = log[1].ctx.sel \cap host.objects

\* C5: on the preserving path preserve_context returns True exactly when the
\* operation completed and the restore returned True; the restore is called
\* with the dict captured before the operation whether or not the operation
\* raised, and a raising operation gives False.
C5_PreserveResult ==
    PreservedRun =>
        /\ log[2].call = "capture" /\ log[3].call = "operation"
        /\ log[4].call = "restore"
        /\ log[4].ctx = log[2].ctx
        /\ (ret = "true") <=> (log[3].ok /\ log[4].ok)
        /\ ret \in {"true", "false"}
        /\ ~log[3].ok => ret = "false"

\* The operation raised, the restore succeeded, the call returned False.
C5_Witness ==
    PreservedRun /\ ~log[3].ok /\ log[4].ok /\ ret = "false"

\* C6: on the preserving path, when the operation changed the selection and
\* then raised, the selection after the call is the selection before the
\* call less the deleted objects, and the call returns False.
C6_SelectionAfterRaise ==
    (PreservedRun /\ ~log[3].ok /\ log[3].ctx.sel # log[1].ctx.sel) =>
        /\ host.selected = log[1].ctx.sel \cap host.objects
        /\ ret = "false"

\* C7: with context_preservation off, preserve_context calls neither
\* capture_context nor restore_context; its return leaves the host as the
\* operation left it and the stack as it was.
C7_PlainPath ==
    [][(lastOp' = "preserve" /\ ~preservation) =>
        /\ host' = host
        /\ stack' = stack
        /\ \A k \in 1..Len(log') : log'[k].call \notin {"capture", "restore"}
        /\ FullCtx(host') = log'[Len(log')].ctx]_vars

\* A plain call has returned True after its operation changed the host.
C7_Witness ==
    PlainRun /\ ~preservation /\ ret = "true" /\ log[2].ctx # log[1].ctx

\* C8: no public operation lets an exception reach its caller.
C8_NeverRaises == ret # "raised"

\* C9: capture_context directly followed by restore_context of the captured
\* dict leaves selection, active object and visible collections as they
\* were, whatever the state of the session at the capture.
C9_CaptureRestoreIdentity ==
    [][(lastOp = "capture" /\ lastOp' = "restore") =>
        /\ host'.selected = host.selected
        /\ host'.active = host.active
        /\ host'.visible = host.visible]_vars

\* The identifiers of the restored dict that are not in the host any more.
Missing == log[1].ctx.sel \ host.objects

\* C10: restore_context of a dict that names an object deleted since (in a
\* session whose API calls work) skips that name, selects every other name
\* of the dict that exists and returns True.
C10_MissingObjectSkipped ==
    (lastOp = "restore" /\ Missing # {} /\ host.fault = "none") =>
        /\ ret = "true"
        /\ (log[1].ctx.sel \cap host.objects) \subseteq host.selected
        /\ host.selected \cap Missing = {}

\* A restore has returned True for a dict naming a deleted object and an
\* existing one.
C10_Witness ==
    /\ lastOp = "restore" /\ ret = "true" /\ host.fault = "none"
    /\ Missing # {}
    /\ log[1].ctx.sel \cap host.objects # {}

\* The host accesses made by the steps of restore_context.
RestoreStepFaults ==
    {"set_active", "deselect", "select", "mode_set", "shading_write", "hide_write"}

\* C11: a host fault in one step of restore_context does not make it return
\* False: the step is skipped and the result is True.
C11_StepFaultTolerated ==
    (lastOp = "restore" /\ host.fault \in RestoreStepFaults) => ret = "true"

\* C12: when the read of one field fails in capture_context, every other
\* field of the returned dict holds the value read from the host.
C12_OtherFieldsCaptured ==
    lastOp = "capture" =>
        LET S == log[1].ctx IN
        /\ host.fault # "read_context" =>
              S.sel = host.selected /\ S.active = host.active /\ S.mode = host.mode
        /\ host.fault # "no_space_data" => S.shading = host.shading
        /\ host.fault # "collections" => S.vis = host.visible

\* C13: clear_context_stack leaves the stack empty at any depth, returns
\* nothing, calls no restore and leaves the host as it was.
C13_ClearEmpties ==
    [][lastOp' = "clear" =>
        /\ stack' = <<>>
        /\ host' = host
        /\ ret' = "none"
        /\ log' = <<>>]_vars

\* A clear has returned after the host had been changed since construction:
\* the stack is empty and the host was not put back.
C13_Witness ==
    lastOp = "clear" /\ stack = <<>> /\ host # InitHost

\* C14: set_max_context_stack_size removes no snapshot; while the depth is at
\* or above the limit every push returns False and stores nothing; the
\* snapshots of a stack deeper than the limit are still popped newest first
\* and restored.
C14_LimitBelowDepth ==
    [][/\ lastOp' = "set_max" => stack' = stack
       /\ (lastOp' = "push" /\ Len(stack) >= maxSize) =>
              ret' = "false" /\ stack' = stack
       /\ (lastOp' = "pop" /\ Len(stack) > maxSize) =>
              /\ stack' = SubSeq(stack, 1, Len(stack) - 1)
              /\ log' = <<Entry("restore", stack[Len(stack)], ret' = "true")>>
      ]_vars

\* The limit was set below the depth and a pop has restored the newest
\* snapshot; the depth is still at the limit.
C14_Witness ==
    /\ lastOp = "pop" /\ Len(log) = 1 /\ ret = "true"
    /\ maxSize = 1 /\ Len(stack) = 1

\* C15: restore_context of a dict captured with a non-empty selection and an
\* active object, all still in the host (whose API calls work), returns True,
\* leaves every object of the dict selected and its active object active.
C15_SelectionAndActiveRestored ==
    LET S == log[1].ctx IN
    (/\ lastOp = "restore"
     /\ S.sel # {} /\ S.sel \subseteq host.objects
     /\ S.active \in host.objects
     /\ host.fault = "none") =>
        /\ ret = "true"
        /\ S.sel \subseteq host.selected
        /\ host.active = S.active

\* As in the test: A and B captured selected with A active, then C created
\* (which leaves only C selected and active), then the restore.
C15_Witness ==
    /\ lastOp = "restore" /\ ret = "true" /\ host.fault = "none"
    /\ log[1].ctx.sel = {"A", "B"} /\ log[1].ctx.active = "A"
    /\ host.objects = {"A", "B", "C"} /\ nMut = 2
    /\ host.active = "A" /\ {"A", "B"} \subseteq host.selected

\* C16: after restore_context(S), in a session whose API calls work, a
\* collection of the host is visible exactly when S names it, in both
\* classes.
C16_CollectionsRestored ==
    (lastOp = "restore" /\ ret = "true" /\ host.fault = "none") =>
        host.visible = log[1].ctx.vis \cap host.collections

\* C17: import_asset returns the result dict of the underlying import.
C17_ReturnsImportRecord ==
    lastOp = "import_asset" =>
        /\ imp.out.kind = "record"
        /\ imp.out.results = imp.produced

Min(a, b) == IF a < b THEN a ELSE b

\* The results are those of the first paths, in input order.
InOrder(results, paths) ==
    /\ Len(results) <= Len(paths)
    /\ \A k \in 1..Len(results) : results[k].asset = paths[k]

\* How many results the batch import of imp must return.
BatchCount ==
    IF imp.fn = "import_assets_grid"
    THEN Min(Len(imp.paths), imp.rows * imp.cols)
    ELSE Len(imp.paths)

BatchReturned == lastOp \in {"import_assets_grid", "import_assets_line"}

C19_CircleImportsAll ==
    lastOp = "import_assets_circle" =>
        /\ imp.out.kind = "list"
        /\ Len(imp.out.results) = Len(imp.paths)
        /\ InOrder(imp.out.results, imp.paths)
        /\ \A k \in 1..Len(imp.out.results) :
              (/\ imp.paths[k].exists
               /\ imp.paths[k].ext \in Dispatched
               /\ imp.paths[k].readable) => imp.out.results[k].success

\* The phase of the preserve_context call at nesting level n.
PhaseAt(f, n) == IF n <= Len(f) THEN f[n].phase ELSE "Idle"

\* The call at level n is on the preserving path.
PreservingAt(f, n) == n <= Len(f) /\ f[n].enabled

PhaseOrder ==
    { <<"Idle", "Capturing">>, <<"Capturing", "Executing">>,
      <<"Executing", "Restoring">>, <<"Restoring", "Idle">> }

\* Every phase change of a call on the preserving path follows PhaseOrder;
\* with the toggle on a call starts in Capturing, and it leaves Capturing
\* with the dict captured from the host as it is then.
PhaseSteps ==
    /\ \A n \in 1..MaxNest :
          (/\ PreservingAt(frames, n) \/ PreservingAt(frames', n)
           /\ PhaseAt(frames, n) # PhaseAt(frames', n)) =>
              <<PhaseAt(frames, n), PhaseAt(frames', n)>> \in PhaseOrder
    /\ (lastOp' = "preserve_call" /\ preservation) =>
          /\ PreservingAt(frames', Len(frames'))
          /\ PhaseAt(frames', Len(frames')) = "Capturing"
    /\ lastOp' = "preserve_capture" =>
          frames'[Len(frames')].saved = capture_context(impl, host)

\* C20: with preservation enabled a preserve_context call goes Idle,
\* Capturing, Executing, Restoring, Idle: the capture is done before the
\* operation starts, Executing is left only for Restoring, whether the
\* operation returns or raises, and once the operation has ended the call
\* returns.
C20_PhaseOrder ==
    /\ [][PhaseSteps]_vars
    /\ (frames # <<>> /\ Top.phase = "Capturing") ~> (lastOp = "preserve_capture")
    /\ (frames # <<>> /\ Top.phase = "Restoring") ~> (lastOp = "preserve")

\* An operation raised on the preserving path and the call has returned to
\* the caller, who is idle again.
C20_Witness ==
    PreservedRun /\ ~log[3].ok /\ log[4].call = "restore" /\ Idle

\* C21: a snapshot on the stack keeps the value it was captured with: a
\* push stores the dict captured from the host as it is then, and no step
\* (host mutation, push, pop with its restore, clear, resize) changes a
\* snapshot that stays on the stack.
C21_SnapshotsImmutable ==
    [][/\ \A k \in 1..Len(stack) : k <= Len(stack') => stack'[k] = stack[k]
       /\ (lastOp' = "push" /\ ret' = "true") =>
              stack'[Len(stack')] = capture_context(impl, host)
      ]_vars

\* Two different snapshots were pushed, the newer one was popped and
\* restored, and the older one is still on the stack.
C21_Witness ==
    /\ lastOp = "pop" /\ Len(log) = 1 /\ Len(stack) = 1
    /\ log[1].ctx # stack[1] /\ nMut > 0

\* The restore_context calls in the log of a call that has returned.
Restores == {k \in 1..Len(log) : log[k].call = "restore"}

\* C22: a preserve_context call that took the preserving path has called
\* restore_context exactly once when it returns, as its last call and with
\* the dict it captured, whether the operation returned or raised and
\* whether the restore returned True or False; an activation still running
\* has not called it.
C22_RestoreOnce ==
    /\ (lastOp = "preserve" /\ Len(log) > 2) =>
          /\ Restores = {Len(log)}
          /\ log[Len(log)].ctx = log[2].ctx
    /\ \A n \in 1..Len(frames) :
          \A k \in 1..Len(frames[n].calls) : frames[n].calls[k].call # "restore"

\* The operation returned, the one restore returned False, and the call
\* returned False without another restore.
C22_Witness ==
    PreservedRun /\ log[3].ok /\ ~log[4].ok /\ ret = "false" /\ Restores = {4}

\* C26: pop_context on a non-empty stack leaves the depth one lower whether
\* restore_context returned True or False; the popped snapshot is not put
\* back.
C26_PopDiscards ==
    [][(lastOp' = "pop" /\ stack # <<>>) =>
          /\ Len(stack') = Len(stack) - 1
          /\ stack' = SubSeq(stack, 1, Len(stack) - 1)
          /\ ret' = Bool(log'[1].ok)
      ]_vars

\* A pop returned False because the restore failed, and the snapshot is gone.
C26_Witness ==
    /\ lastOp = "pop" /\ ret = "false"
    /\ Len(log) = 1 /\ ~log[1].ok /\ stack = <<>>

\* C23: the depth test and the append of push_context are separate steps.
\* An append takes the depth above the limit only when the depth is no longer
\* the one the thread's test read, that is when another call ran between the
\* test and the append; a push whose test and append are not separated by
\* another call never does.
C23_PushNotAtomic ==
    [][\A t \in Threads :
          (pushing[t].pc = "checked" /\ pushing'[t].pc = "idle") =>
              /\ Len(stack') = Len(stack) + 1
              /\ Len(stack) = pushing[t].seen => Len(stack') <= maxSize
              /\ Len(stack') > maxSize => Len(stack) > pushing[t].seen
      ]_vars

\* Two pushes passed the test at depth maxSize - 1 and both appended: the
\* push that returned last left the depth at maxSize + 1.
C23_Witness ==
    /\ lastOp = "push" /\ ret = "true"
    /\ NoPushInFlight
    /\ Len(stack) = maxSize + 1

\* C27: with serialized calls the depth of the stack is at least 0 and at
\* most the largest limit there has been so far; while the limit is the
\* initial one, never changed, the depth is at most that limit.
C27_DepthBounded ==
    /\ Len(stack) >= 0
    /\ Len(stack) <= largest
    /\ largest >= DefaultMaxStackSize
    /\ (largest = DefaultMaxStackSize /\ maxSize = DefaultMaxStackSize) =>
          Len(stack) <= maxSize

\* The stack was filled to a raised limit, the limit was lowered, and a push
\* was refused: the depth is above the current limit and equals the largest.
C27_Witness ==
    /\ lastOp = "push" /\ ret = "false"
    /\ Len(stack) = largest /\ largest = LargeMaxStackSize
    /\ maxSize < Len(stack)

\* C29: from its call to its return, preserve_context and the operation it
\* runs (which does not call the manager) leave the context stack and its
\* limit as they are, on the preserving and on the plain path and whether the
\* operation returns or raises.
C29_StackUntouched ==
    [][(frames # <<>> \/ frames' # <<>>) =>
          stack' = stack /\ maxSize' = maxSize]_vars

\* A plain-path call whose operation raised has returned, with snapshots on
\* the stack.
C29_Witness ==
    PlainRun /\ ~log[2].ok /\ Len(stack) = 2

\* C24: create_material_blender given a non-numeric value for metallic
\* returns a success result, and the material it created has the default
\* metallic value.
C24_InvalidOptionSucceeds ==
    (lastOp = "create_material" /\ mat.options.metallic = "invalid_value") =>
        /\ mat.result.success
        /\ mat.materials[Len(mat.materials)].name = mat.name
        /\ mat.materials[Len(mat.materials)].metallic = DefaultMetallic

\* The import functions that hand every path to the dispatch.
DispatchingImports ==
    {"import_asset", "import_assets_grid", "import_assets_line",
     "import_asset_blender"}

\* C25: no file that exists and whose extension is listed under 'models' or
\* 'textures' by get_supported_formats / get_supported_formats_blender gets
\* the 'Unsupported file format' result.
C25_ListedFormatsDispatched ==
    lastOp \in DispatchingImports =>
        \A k \in 1..Len(imp.produced) :
            (imp.produced[k].asset.exists /\ imp.produced[k].asset.ext \in Listed)
                => imp.produced[k].message # "Unsupported file format"

\* The message of the failure record _perform_import returns for asset a, or
\* "" when the import of a does not fail.
FailureOf(a) ==
    IF ~a.exists THEN "Asset file not found"
    ELSE IF a.ext \notin Dispatched THEN "Unsupported file format"
    ELSE IF ~a.readable THEN "Failed to import"
    ELSE ""

\* C30: a failed import does not abort import_assets_grid or
\* import_assets_line. The call returns the list with one record per path it
\* had to import; the record of a missing file, of an unsupported format and
\* of a file its importer cannot read is the failure record with that
\* message, and the paths after it have their records too. With preservation
\* on, the operation ran to its end without raising and restore_context was
\* called once, as the last call, with the captured dict; with preservation
\* off no restore is called anywhere in the batch.
C30_FailureDoesNotAbort ==
    BatchReturned =>
        /\ imp.out.kind = "list"
        /\ imp.out.results = imp.produced
        /\ Len(imp.out.results) = BatchCount
        /\ \A k \in 1..BatchCount :
               /\ imp.out.results[k].asset = imp.paths[k]
               /\ FailureOf(imp.paths[k]) # "" =>
                      imp.out.results[k] =
                          Result(imp.paths[k], FALSE, FailureOf(imp.paths[k]), <<>>)
               /\ FailureOf(imp.paths[k]) = "" => imp.out.results[k].success
        /\ IF Preserves(preservation)
           THEN /\ Len(log) = 4
                /\ log[3].call = "operation" /\ log[3].ok
                /\ Restores = {4}
                /\ log[4].ctx = log[2].ctx
           ELSE Restores = {}

\* import_assets_line with preservation on, given a path that fails and then
\* one that imports: both records are returned, the failure first, and the
\* one restore is the last call.
C30_Witness ==
    /\ lastOp = "import_assets_line"
    /\ Preserves(preservation)
    /\ Len(imp.paths) = 2
    /\ FailureOf(imp.paths[1]) = "Asset file not found"
    /\ Len(imp.out.results) = 2
    /\ ~imp.out.results[1].success
    /\ imp.out.results[2].success
    /\ Restores = {4}

\* What the host shows of snapshot S after a restore whose API calls work:
\* the active object of S is active if it still exists, and the objects of
\* S that still exist are selected (TahliaBridge, which deselects first when
\* S has a selection, leaves nothing else selected).
ShowsSnapshot(S, h) ==
    /\ S.active \in h.objects => h.active = S.active
    /\ (S.sel \cap h.objects) \subseteq h.selected
    /\ (impl = "bridge" /\ S.sel # {}) => h.selected = S.sel \cap h.objects

\* C28: preserve_context calls nest. The restore that ends an activation is
\* given the dict that activation captured itself. When a nested activation
\* returns, the enclosing one is still executing its operation and has not
\* restored, so the nested restore comes first; the enclosing activation
\* restores its own pre-call dict afterwards, and when the API calls work
\* the host then shows the active object and the selection of that outer
\* dict, for the objects that still exist.
C28_NestedRestoreOrder ==
    [][ (frames # <<>> /\ Top.phase = "Restoring" /\ frames' = Pop(frames)) =>
            LET S == Top.saved
                n == Len(frames)
            IN /\ log'[Len(log')].call = "restore"
               /\ log'[Len(log')].ctx = S
               /\ host.fault = "none" => ShowsSnapshot(S, host')
               /\ n > 1 =>
                      /\ inner' = Inner(n, S)
                      /\ frames'[n - 1] = frames[n - 1]
                      /\ frames[n - 1].phase = "Executing"
               /\ n = 1 => inner' = inner
      ]_vars

\* The outer call has returned after a nested call restored a different
\* dict: the host shows the outer dict's active object, not the one the
\* operation (and the nested restore) left.
C28_Witness ==
    /\ frames = <<>> /\ lastOp = "preserve" /\ Len(log) = 4
    /\ inner.level = 2
    /\ inner.ctx # log[2].ctx
    /\ host.fault = "none"
    /\ log[2].ctx.active \in host.objects
    /\ log[3].ctx.active = inner.ctx.active
    /\ log[3].ctx.active # log[2].ctx.active
    /\ host.active = log[2].ctx.active
    /\ log[2].ctx.sel # {} /\ log[2].ctx.sel \subseteq host.selected

====
